---- MODULE Spec2Model ----
(***************************************************************************)
(* Model of photo-normalizer: capture-time resolution, the planning loop   *)
(* (sort, per-second sequencing, target paths) and plan execution, as      *)
(* written in photo_normalizer/cli.py and photo_normalizer/web_app.py.     *)
(*                                                                         *)
(* Strings are sequences of ASCII codes, so that lexical comparison        *)
(* (sort key), lowercasing (suffix test) and the filename regular          *)
(* expression are computed character by character.                         *)
(***************************************************************************)
EXTENDS Integers, Sequences, FiniteSets, TLC

\* ------------------------------------------------------------------------
\* Bounds of the model
\* ------------------------------------------------------------------------

\* Largest number of entries of the input directory tree.
MaxFiles == 3

\* Largest number of input files of a web job that runs beside another.
MaxJobFiles == 2

\* Largest number of files already present in the output directory.
MaxExisting == 2

\* ------------------------------------------------------------------------
\* Characters and strings
\* ------------------------------------------------------------------------

IsDigit(c) == c \in 48..57

\* str.lower() on one ASCII character, then on a string.
LowerChar(c) == IF c \in 65..90 THEN c + 32 ELSE c

Lower(str) == [i \in 1..Len(str) |-> LowerChar(str[i])]

\* Python's ordering of str: lexicographic by code point, a proper prefix first.
RECURSIVE StrLess(_, _)
StrLess(a, b) ==
    IF b = <<>> THEN FALSE
    ELSE IF a = <<>> THEN TRUE
    ELSE IF a[1] # b[1] THEN a[1] < b[1]
    ELSE StrLess(Tail(a), Tail(b))

\* Two decimal digits, as "%02d" writes them.
Digits2(n) == <<48 + (n \div 10), 48 + (n % 10)>>

\* Four decimal digits, as "%04d" / "%Y" write a value below 10000.
Digits4(n) == Digits2(n \div 100) \o Digits2(n % 100)

\* ------------------------------------------------------------------------
\* datetime
\* ------------------------------------------------------------------------

\* Optional[datetime]: None is a record no datetime equals (year 0).
None == [y |-> 0, m |-> 0, d |-> 0, h |-> 0, mi |-> 0, s |-> 0, us |-> 0]

DT(y, m, d, h, mi, s, us) ==
    [y |-> y, m |-> m, d |-> d, h |-> h, mi |-> mi, s |-> s, us |-> us]

IsLeap(y) == (y % 4 = 0) /\ ((y % 100 # 0) \/ (y % 400 = 0))

DaysInMonth(y, m) ==
    IF m = 2 THEN (IF IsLeap(y) THEN 29 ELSE 28)
    ELSE IF m \in {4, 6, 9, 11} THEN 30 ELSE 31

\* Whether datetime(y, m, d, h, mi, s) constructs; otherwise it raises ValueError.
ValidDateTime(y, m, d, h, mi, s) ==
    /\ y \in 1..9999
    /\ m \in 1..12
    /\ d \in 1..DaysInMonth(y, m)
    /\ h \in 0..23
    /\ mi \in 0..59
    /\ s \in 0..59

\* datetime comparison: lexicographic over the fields.
DtKey(dt) == <<dt.y, dt.m, dt.d, dt.h, dt.mi, dt.s, dt.us>>

RECURSIVE TupleLess(_, _)
TupleLess(a, b) ==
    IF a = <<>> \/ b = <<>> THEN FALSE
    ELSE IF a[1] # b[1] THEN a[1] < b[1]
    ELSE TupleLess(Tail(a), Tail(b))

DtLess(a, b) == TupleLess(DtKey(a), DtKey(b))

\* capture_dt.replace(microsecond=0)
TruncSecond(dt) == [dt EXCEPT !.us = 0]

\* ------------------------------------------------------------------------
\* try_parse_from_name: the filename pattern
\* ------------------------------------------------------------------------

\* Character classes of the optional separators of the pattern.
SepDate == {45, 95, 46}
SepMid == {95, 45, 46, 32, 9, 10, 11, 12, 13}
SepTime == {58, 46, 95, 45}

\* Position after an optional separator of class cls at position p.
SkipSep(str, p, cls) == IF p <= Len(str) /\ str[p] \in cls THEN p + 1 ELSE p

\* Value of the two digits at p, p+1; -1 when they are not two digits.
TwoDigits(str, p) ==
    IF p + 1 <= Len(str) /\ IsDigit(str[p]) /\ IsDigit(str[p + 1])
    THEN (str[p] - 48) * 10 + (str[p + 1] - 48)
    ELSE -1

NoMatch == [ok |-> FALSE, y |-> 0, m |-> 0, d |-> 0, h |-> 0, mi |-> 0, s |-> 0]

\* The pattern anchored at position i: the groups of the match, or NoMatch.
\* An optional separator is a non-digit, so taking it greedily loses no match.
MatchAt(str, i) ==
    LET yy == TwoDigits(str, i + 2)
        pm == SkipSep(str, i + 4, SepDate)
        mm == TwoDigits(str, pm)
        pd == SkipSep(str, pm + 2, SepDate)
        dd == TwoDigits(str, pd)
        ph == SkipSep(str, pd + 2, SepMid)
        hh == TwoDigits(str, ph)
        pn == SkipSep(str, ph + 2, SepTime)
        nn == TwoDigits(str, pn)
        ps == SkipSep(str, pn + 2, SepTime)
        ss == TwoDigits(str, ps)
    IN  IF /\ i + 3 <= Len(str)
           /\ str[i] = 50
           /\ str[i + 1] = 48
           /\ yy >= 0
           /\ mm \in 1..12
           /\ dd \in 0..31
           /\ hh \in 0..23
           /\ nn \in 0..59
           /\ ss \in 0..59
        THEN [ok |-> TRUE, y |-> 2000 + yy, m |-> mm, d |-> dd,
              h |-> hh, mi |-> nn, s |-> ss]
        ELSE NoMatch

\* Positions of the string where the pattern matches.
MatchPositions(str) == {i \in 1..Len(str) : MatchAt(str, i).ok}

\* pattern.search(name): the leftmost match, or NoMatch.
Search(str) ==
    LET ps == MatchPositions(str)
    IN  IF ps = {} THEN NoMatch
        ELSE MatchAt(str, CHOOSE i \in ps : \A j \in ps : i <= j)

\* The list of compiled patterns; it has one entry.
DATETIME_NAME_PATTERNS == <<"ymd_hms">>

\* The loop body for the patterns from index k on: a match whose datetime()
\* raises is skipped with `continue`, which moves on to the next pattern.
RECURSIVE TryPatternsFrom(_, _)
TryPatternsFrom(name, k) ==
    IF k > Len(DATETIME_NAME_PATTERNS) THEN None
    ELSE LET match == Search(name)
         IN  IF match.ok /\ ValidDateTime(match.y, match.m, match.d,
                                          match.h, match.mi, match.s)
             THEN DT(match.y, match.m, match.d, match.h, match.mi, match.s, 0)
             ELSE TryPatternsFrom(name, k + 1)

\* Mutant: a rejected match is followed by the later matches of the name.
try_parse_later_matches(name) ==
    LET valid == {i \in MatchPositions(name) :
                    LET match == MatchAt(name, i)
                    IN  ValidDateTime(match.y, match.m, match.d,
                                      match.h, match.mi, match.s)}
        match == MatchAt(name, CHOOSE i \in valid : \A n \in valid : i <= n)
    IN  IF valid = {} THEN None
        ELSE DT(match.y, match.m, match.d, match.h, match.mi, match.s, 0)

try_parse_from_name(name) == TryPatternsFrom(name, 1)

\* ------------------------------------------------------------------------
\* get_exif_datetime: the EXIF tags
\* ------------------------------------------------------------------------

\* str.strip(): whitespace removed at both ends.
Whitespace == {32, 9, 10, 11, 12, 13}

RECURSIVE LStrip(_)
LStrip(str) ==
    IF str # <<>> /\ str[1] \in Whitespace THEN LStrip(Tail(str)) ELSE str

RECURSIVE RStrip(_)
RStrip(str) ==
    IF str # <<>> /\ str[Len(str)] \in Whitespace
    THEN RStrip(SubSeq(str, 1, Len(str) - 1))
    ELSE str

Strip(str) == RStrip(LStrip(str))

\* str.replace("/", ":")
ReplaceSlash(str) == [i \in 1..Len(str) |-> IF str[i] = 47 THEN 58 ELSE str[i]]

\* datetime.strptime(value, "%Y<sep>%m<sep>%d %H:%M:%S") on zero-padded
\* fields (the form cameras write): the datetime, or None where it raises.
StrpTime(str, sep) ==
    LET y  == TwoDigits(str, 1) * 100 + TwoDigits(str, 3)
        mo == TwoDigits(str, 6)
        d  == TwoDigits(str, 9)
        h  == TwoDigits(str, 12)
        mi == TwoDigits(str, 15)
        s  == TwoDigits(str, 18)
    IN  IF /\ Len(str) = 19
           /\ TwoDigits(str, 1) >= 0 /\ TwoDigits(str, 3) >= 0
           /\ str[5] = sep /\ str[8] = sep
           /\ str[11] = 32
           /\ str[14] = 58 /\ str[17] = 58
           /\ ValidDateTime(y, mo, d, h, mi, s)
        THEN DT(y, mo, d, h, mi, s, 0)
        ELSE None

\* The body of the loop for one tag value: bytes are decoded, a str is
\* stripped, "/" replaced by ":", and the three formats are tried in turn;
\* a value of another type, or no value, gives nothing.
ParseExifValue(value) ==
    IF value.kind \in {"str", "bytes"}
    THEN LET v == ReplaceSlash(Strip(value.chars))
         IN  IF StrpTime(v, 58) # None THEN StrpTime(v, 58)
             ELSE IF StrpTime(v, 45) # None THEN StrpTime(v, 45)
             ELSE StrpTime(v, 47)
    ELSE None

\* exif.get(key)
NoValue == [kind |-> "none", chars |-> <<>>]

ExifGet(exif, key) == IF key \in DOMAIN exif THEN exif[key] ELSE NoValue

\* The tags in the order the loop reads them.
ExifKeys == <<"DateTimeOriginal", "DateTime", "DateTimeDigitized">>

RECURSIVE ExifFrom(_, _)
ExifFrom(exif, k) ==
    IF k > Len(ExifKeys) THEN None
    ELSE LET dt == ParseExifValue(ExifGet(exif, ExifKeys[k]))
         IN  IF dt # None THEN dt ELSE ExifFrom(exif, k + 1)

\* img: [image |-> "ok" | "badexif", exif |-> tag -> value].  getexif() raising
\* is caught by the outer handler.
get_exif_datetime(img) ==
    IF img.image = "badexif" THEN None
    ELSE IF DOMAIN img.exif = {} THEN None
    ELSE ExifFrom(img.exif, 1)

\* ------------------------------------------------------------------------
\* get_file_times
\* ------------------------------------------------------------------------

\* Civil date of a day count since 1970-01-01 (proleptic Gregorian calendar).
CivilFromDays(days) ==
    LET z   == days + 719468
        era == z \div 146097
        doe == z - era * 146097
        yoe == (doe - (doe \div 1460) + (doe \div 36524) - (doe \div 146096)) \div 365
        doy == doe - (365 * yoe + (yoe \div 4) - (yoe \div 100))
        mp  == (5 * doy + 2) \div 153
        d   == doy - ((153 * mp + 2) \div 5) + 1
        m   == IF mp < 10 THEN mp + 3 ELSE mp - 9
        y   == yoe + era * 400 + (IF m <= 2 THEN 1 ELSE 0)
    IN  [y |-> y, m |-> m, d |-> d]

\* datetime.fromtimestamp(ts), ts = [sec, us] since the epoch; the local
\* zone is taken to be UTC.
FromTimestamp(ts) ==
    LET c   == CivilFromDays(ts.sec \div 86400)
        sod == ts.sec % 86400
    IN  DT(c.y, c.m, c.d, sod \div 3600, (sod % 3600) \div 60, sod % 60, ts.us)

\* st_birthtime where the platform has none.
NoBirth == [sec |-> -1, us |-> 0]

\* `birth_ts or stat.st_mtime`: None and 0.0 are both false.
get_file_times(path) ==
    LET birth_ts == path.stat.birth
        ts == IF birth_ts = NoBirth \/ (birth_ts.sec = 0 /\ birth_ts.us = 0)
              THEN path.stat.mtime
              ELSE birth_ts
    IN  FromTimestamp(ts)

\* ------------------------------------------------------------------------
\* determine_capture_datetime
\* ------------------------------------------------------------------------

\* A path of the input tree: [dir, name, kind, image, exif, stat].
\* image = "unreadable": Image.open raises.

\* Mutant: the file name is asked before EXIF.
determine_name_first(path) ==
    LET dt == IF path.image = "unreadable" THEN None
              ELSE get_exif_datetime(path)
        dt_from_name == try_parse_from_name(path.name)
    IN  IF dt_from_name # None THEN dt_from_name
        ELSE IF dt # None THEN dt
        ELSE get_file_times(path)

determine_capture_datetime(path) ==
    LET dt == IF path.image = "unreadable" THEN None
              ELSE get_exif_datetime(path)
        dt_from_name == try_parse_from_name(path.name)
    IN  IF dt # None THEN dt
        ELSE IF dt_from_name # None THEN dt_from_name
        ELSE get_file_times(path)

\* Path.suffix: from the last dot of the name, unless the name starts with it.
Suffix(name) ==
    LET dots == {i \in 2..Len(name) : name[i] = 46}
    IN  IF dots = {} \/ name[Len(name)] = 46 THEN <<>>
        ELSE SubSeq(name, CHOOSE i \in dots : \A j \in dots : j <= i, Len(name))

\* ------------------------------------------------------------------------
\* Input tree, options
\* ------------------------------------------------------------------------

SUPPORTED_INPUT_EXTS ==
    { <<46, 106, 112, 103>>,        \* .jpg
      <<46, 106, 112, 101, 103>>,   \* .jpeg
      <<46, 112, 110, 103>>,        \* .png
      <<46, 104, 101, 105, 99>>,    \* .heic
      <<46, 104, 101, 105, 102>>,   \* .heif
      <<46, 119, 101, 98, 112>>,    \* .webp
      <<46, 116, 105, 102>>,        \* .tif
      <<46, 116, 105, 102, 102>> }  \* .tiff

OUTPUT_FORMAT_TO_EXT ==
    [ jpeg |-> <<46, 106, 112, 103>>,
      png  |-> <<46, 112, 110, 103>>,
      webp |-> <<46, 119, 101, 98, 112>>,
      tiff |-> <<46, 116, 105, 102, 102>> ]

\* Mutant: the suffix is not looked at.
iter_any_suffix(tree, recursive) ==
    SelectSeq(tree, LAMBDA path :
        /\ recursive \/ path.dir = <<>>
        /\ path.kind = "file")

\* iter_input_files(root, recursive): the entries in the order the directory
\* listing yields them (tree), kept when they are files with a supported
\* suffix; without recursive only the entries of the root itself.
iter_input_files(tree, recursive) ==
    SelectSeq(tree, LAMBDA path :
        /\ recursive \/ path.dir = <<>>
        /\ path.kind = "file"
        /\ Lower(Suffix(path.name)) \in SUPPORTED_INPUT_EXTS)

\* ------------------------------------------------------------------------
\* build_target_path, ensure_unique
\* ------------------------------------------------------------------------

\* str(n) for n >= 0.
RECURSIVE Decimal(_)
Decimal(n) == IF n < 10 THEN <<48 + n>> ELSE Decimal(n \div 10) \o <<48 + (n % 10)>>

\* f"{idx:04d}"
Pad4(n) == IF n < 10000 THEN Digits4(n) ELSE Decimal(n)

\* capture_dt.strftime("%Y-%m-%d_%H-%M-%S")
StrfStamp(dt) ==
    Digits4(dt.y) \o <<45>> \o Digits2(dt.m) \o <<45>> \o Digits2(dt.d) \o <<95>>
    \o Digits2(dt.h) \o <<45>> \o Digits2(dt.mi) \o <<45>> \o Digits2(dt.s)

\* A destination path: the components below the file system root, and the name.
MkPath(dir, name) == [dir |-> dir, name |-> name]

\* Path(): the placeholder a PlanItem is built with.
Placeholder == MkPath(<<>>, <<46>>)

build_target_path(output_dir, capture_dt, idx, subfolders, target_ext) ==
    LET base_name == StrfStamp(capture_dt) \o <<95>> \o Pad4(idx) \o target_ext
    IN  IF subfolders = "none" THEN MkPath(output_dir, base_name)
        ELSE IF subfolders = "day"
        THEN MkPath(output_dir \o <<Digits4(capture_dt.y), Digits2(capture_dt.m),
                                    Digits2(capture_dt.d)>>, base_name)
        ELSE IF subfolders = "month"
        THEN MkPath(output_dir \o <<Digits4(capture_dt.y), Digits2(capture_dt.m)>>,
                    base_name)
        ELSE IF subfolders = "year"
        THEN MkPath(output_dir \o <<Digits4(capture_dt.y)>>, base_name)
        ELSE MkPath(output_dir, base_name)

\* Path.stem
Stem(name) == SubSeq(name, 1, Len(name) - Len(Suffix(name)))

\* path.with_name(f"{stem}__{counter}{ext}")
Candidate(path, counter) ==
    MkPath(path.dir, Stem(path.name) \o <<95, 95>> \o Decimal(counter) \o Suffix(path.name))

\* The while loop of ensure_unique from the given counter, against the set
\* of paths that exist.
RECURSIVE UniqueFrom(_, _, _)
UniqueFrom(path, counter, existing) ==
    IF Candidate(path, counter) \notin existing THEN Candidate(path, counter)
    ELSE UniqueFrom(path, counter + 1, existing)

\* ------------------------------------------------------------------------
\* State
\* ------------------------------------------------------------------------

\* One run is a job: an invocation of the command line, or a web job with
\* its worker thread.  Job 2 is used only by runs that share the output
\* directory; it stays idle otherwise.
JobIds == {1, 2}

VARIABLES
    fs,             \* the paths that exist below the output directory
    fs0,            \* the paths that existed there before any run
    tree,           \* per job: the entries of the input directory tree
    opt,            \* per job: the options of the run
    pc,             \* per job: position of the run
    total,          \* per job: len(input_files)
    plan,           \* per job: list of PlanItem
    k,              \* per job: index of the item the current loop is at
    last_second,    \* per job: local of the assignment loop
    seq_in_second,  \* per job: local of the assignment loop
    written,        \* per job: destination paths save_image has written, in order
    status,         \* per job: processing_jobs[job_id]['status'] (web)
    error,          \* per job: processing_jobs[job_id]['error'] (web)
    out,            \* per job: what the command line printed last
    exit_code,      \* per job: exit status of the command (-1 while running)
    probe,          \* the path determine_capture_datetime is called with
    resolved        \* what that call returned (None before it returns)

vars == <<fs, fs0, tree, opt, pc, total, plan, k, last_second, seq_in_second,
          written, status, error, out, exit_code, probe, resolved>>

\* Mutant: the computed path is taken whether it exists or not.
ensure_unique_no_check(path) == path

\* Mutant: `__1` is taken without looking whether it exists.
ensure_unique_first_suffix(path) ==
    IF path \notin fs THEN path ELSE Candidate(path, 1)

\* ensure_unique(path), against the live file system.
ensure_unique(path) ==
    IF path \notin fs THEN path ELSE UniqueFrom(path, 1, fs)

\* ------------------------------------------------------------------------
\* The planning loop
\* ------------------------------------------------------------------------

\* main's guard around determine_capture_datetime: on an exception the file
\* times are used.  The model's determine_capture_datetime raises nowhere.
CaptureOf(path) == determine_capture_datetime(path)

\* Mutant: the suffix is compared as written.
NeedsReencodeCaseSensitive(path, copy_unchanged, target_ext) ==
    IF copy_unchanged /\ Suffix(path.name) = target_ext THEN FALSE ELSE TRUE

\* needs_reencode of one input file.
NeedsReencode(path, copy_unchanged, target_ext) ==
    IF copy_unchanged /\ Lower(Suffix(path.name)) = target_ext THEN FALSE ELSE TRUE

\* The PlanItem appended for one input file.
NewPlanItem(path, o) ==
    [ source |-> path,
      capture_dt |-> CaptureOf(path),
      target |-> Placeholder,
      needs_reencode |->
          NeedsReencode(path, o.copy_unchanged, OUTPUT_FORMAT_TO_EXT[o.output_format]) ]

\* The loop that builds the plan from input_files.
BuildPlan(input_files, o) ==
    [i \in 1..Len(input_files) |-> NewPlanItem(input_files[i], o)]

\* Mutant: the key is the capture time alone.
KeyLessDateOnly(a, b) == DtLess(a.capture_dt, b.capture_dt)

\* The sort key (p.capture_dt, p.source.name), compared as tuples are.
KeyLess(a, b) ==
    \/ DtLess(a.capture_dt, b.capture_dt)
    \/ /\ a.capture_dt = b.capture_dt
       /\ StrLess(a.source.name, b.source.name)

\* list.sort(key=...): a stable sort; an item goes after every item whose key
\* is not greater than its own.
RECURSIVE InsertSorted(_, _)
InsertSorted(sorted, item) ==
    IF sorted = <<>> THEN <<item>>
    ELSE IF KeyLess(item, sorted[Len(sorted)])
         THEN InsertSorted(SubSeq(sorted, 1, Len(sorted) - 1), item)
              \o <<sorted[Len(sorted)]>>
         ELSE Append(sorted, item)

RECURSIVE SortFrom(_, _, _)
SortFrom(items, i, sorted) ==
    IF i > Len(items) THEN sorted
    ELSE SortFrom(items, i + 1, InsertSorted(sorted, items[i]))

SortPlan(items) == SortFrom(items, 1, <<>>)

\* Mutant: the counter is never incremented.
NextSeqAlwaysOne(item, last, seq) ==
    [last |-> TruncSecond(item.capture_dt), seq |-> 1]

\* Mutant: the seconds are compared with their sub-second part.
NextSeqNoTruncate(item, last, seq) ==
    IF last = None \/ item.capture_dt # last
    THEN [last |-> item.capture_dt, seq |-> 1]
    ELSE [last |-> last, seq |-> seq + 1]

\* One pass of the assignment loop: the locals after it and the target path
\* before ensure_unique.
NextSeq(item, last, seq) ==
    LET current_second == TruncSecond(item.capture_dt)
    IN  IF last = None \/ current_second # last
        THEN [last |-> current_second, seq |-> 1]
        ELSE [last |-> last, seq |-> seq + 1]

\* The output directory, as the components below the destination root.
output_dir == <<>>

TargetPath(item, seq, o) ==
    build_target_path(output_dir, item.capture_dt, seq, o.subfolders,
                      OUTPUT_FORMAT_TO_EXT[o.output_format])

\* ------------------------------------------------------------------------
\* The inputs the model draws from
\* ------------------------------------------------------------------------

\* "YYYYMMDD_HHMMSS", the form a camera names its files with.
CompactStamp(y, m, d, h, mi, s) ==
    Digits4(y) \o Digits2(m) \o Digits2(d) \o <<95>>
    \o Digits2(h) \o Digits2(mi) \o Digits2(s)

\* "YYYY<sep>MM<sep>DD HH:MM:SS", the form of an EXIF date-time value.
ExifStamp(y, m, d, h, mi, s, sep) ==
    Digits4(y) \o <<sep>> \o Digits2(m) \o <<sep>> \o Digits2(d) \o <<32>>
    \o Digits2(h) \o <<58>> \o Digits2(mi) \o <<58>> \o Digits2(s)

StrValue(chars) == [kind |-> "str", chars |-> chars]

Entry(dir, name, kind, image, exif, birth, mtime) ==
    [ dir |-> dir, name |-> name, kind |-> kind, image |-> image, exif |-> exif,
      stat |-> [birth |-> birth, mtime |-> mtime] ]

\* An image without EXIF data: getexif() gives an empty mapping.
NoExif == [t \in {} |-> NoValue]

Epoch(sec, us) == [sec |-> sec, us |-> us]

\* "IMG_20240305_100000.jpg"
ImgName == <<73, 77, 71, 95>> \o CompactStamp(2024, 3, 5, 10, 0, 0) \o <<46, 106, 112, 103>>

\* The entries an input tree is made of.  Two have the same name in different
\* directories and the same time; four resolve to the same second, one of
\* them with a sub-second part; one is of another year; one is no image file;
\* one cannot be opened as an image.
Entries ==
    { \* IMG_20240305_100000.jpg in the root: time from the name
      Entry(<<>>, ImgName, "file", "ok", NoExif, NoBirth, Epoch(1709719200, 0)),
      \* a/IMG_20240305_100000.jpg: the same name in a subdirectory
      Entry(<<<<97>>>>, ImgName, "file", "ok", NoExif, NoBirth, Epoch(1709805600, 0)),
      \* c.PNG: file time 2024-03-05 10:00:00.5
      Entry(<<>>, <<99, 46, 80, 78, 71>>, "file", "ok", NoExif, NoBirth,
            Epoch(1709632800, 500000)),
      \* d.jpeg: EXIF DateTimeOriginal 2023:12:31 23:59:59
      Entry(<<>>, <<100, 46, 106, 112, 101, 103>>, "file", "ok",
            [t \in {"DateTimeOriginal"} |->
                StrValue(ExifStamp(2023, 12, 31, 23, 59, 59, 58))],
            NoBirth, Epoch(1709719200, 0)),
      \* e.tif: not readable as an image, birth time 2024-03-05 10:00:00
      Entry(<<>>, <<101, 46, 116, 105, 102>>, "file", "unreadable", NoExif,
            Epoch(1709632800, 0), Epoch(1709719200, 0)),
      \* notes.txt
      Entry(<<>>, <<110, 111, 116, 101, 115, 46, 116, 120, 116>>, "file",
            "unreadable", NoExif, NoBirth, Epoch(1709719200, 0)) }

TreeSets == {t \in SUBSET Entries : Cardinality(t) <= MaxFiles}

\* The orders in which a directory listing can yield the entries of a tree.
Listings(t) ==
    {l \in [1..Cardinality(t) -> t] : \A a, b \in 1..Cardinality(t) : l[a] = l[b] => a = b}

\* The options of a run.  The command line accepts four layouts; a web job
\* passes whatever string the request holds, and has no dry run.  Runs vary
\* the layout, the recursion and the dry run with the default format, or the
\* format and copy_unchanged with the default layout and recursion.
LayoutOptions ==
    [ mode : {"cli"}, output_format : {"jpeg"},
      subfolders : {"none", "day", "month", "year"},
      copy_unchanged : {TRUE}, recursive : BOOLEAN, dry_run : BOOLEAN ]
    \cup
    [ mode : {"web"}, output_format : {"jpeg"},
      subfolders : {"none", "day", "month", "year", "week"},
      copy_unchanged : {TRUE}, recursive : BOOLEAN, dry_run : {FALSE} ]

FormatOptions ==
    [ mode : {"cli"}, output_format : DOMAIN OUTPUT_FORMAT_TO_EXT,
      subfolders : {"none"},
      copy_unchanged : BOOLEAN, recursive : {FALSE}, dry_run : {FALSE} ]
    \cup
    [ mode : {"web"}, output_format : DOMAIN OUTPUT_FORMAT_TO_EXT,
      subfolders : {"none"},
      copy_unchanged : BOOLEAN, recursive : {TRUE}, dry_run : {FALSE} ]

Options == LayoutOptions \cup FormatOptions

NoOptions ==
    [ mode |-> "cli", output_format |-> "jpeg", subfolders |-> "none",
      copy_unchanged |-> TRUE, recursive |-> FALSE, dry_run |-> FALSE ]

\* Files left in the output directory by earlier runs with the same options:
\* the first target of 2024-03-05 10:00:00 and its `__n` variants.
EarlierTarget(o) ==
    build_target_path(output_dir, DT(2024, 3, 5, 10, 0, 0, 0), 1, o.subfolders,
                      OUTPUT_FORMAT_TO_EXT[o.output_format])

EarlierChain(o, n) ==
    {EarlierTarget(o) : i \in 1..(IF n > 0 THEN 1 ELSE 0)}
    \cup {Candidate(EarlierTarget(o), i) : i \in 1..(n - 1)}

PreExisting(o) ==
    {EarlierChain(o, n) : n \in 0..MaxExisting}
    \cup {EarlierChain(o, n) \ {EarlierTarget(o)} : n \in 2..MaxExisting}

\* ------------------------------------------------------------------------
\* Init
\* ------------------------------------------------------------------------

IdleJob(j) == j # 1

Init ==
    \E t \in TreeSets, o \in Options :
        /\ tree = [j \in JobIds |-> IF IdleJob(j) THEN {} ELSE t]
        /\ opt = [j \in JobIds |-> IF IdleJob(j) THEN NoOptions ELSE o]
        /\ fs0 \in PreExisting(o)
        /\ fs = fs0
        /\ pc = [j \in JobIds |-> IF IdleJob(j) THEN "idle" ELSE "start"]
        /\ total = [j \in JobIds |-> 0]
        /\ plan = [j \in JobIds |-> <<>>]
        /\ k = [j \in JobIds |-> 0]
        /\ last_second = [j \in JobIds |-> None]
        /\ seq_in_second = [j \in JobIds |-> 0]
        /\ written = [j \in JobIds |-> <<>>]
        /\ status = [j \in JobIds |->
                        IF ~IdleJob(j) /\ o.mode = "web" THEN "starting" ELSE ""]
        /\ error = [j \in JobIds |-> ""]
        /\ out = [j \in JobIds |-> ""]
        /\ exit_code = [j \in JobIds |-> -1]
        /\ probe = Entry(<<>>, <<>>, "file", "ok", NoExif, NoBirth, Epoch(0, 0))
        /\ resolved = None

\* ------------------------------------------------------------------------
\* Actions of a run
\* ------------------------------------------------------------------------

\* The scan finds no supported file: the command prints a message and exits
\* with status 1; the web worker sets the job to 'error' and returns.
ScanEmpty(j) ==
    /\ pc[j] = "start"
    /\ \E listing \in Listings(tree[j]) :
          iter_input_files(listing, opt[j].recursive) = <<>>
    /\ pc' = [pc EXCEPT ![j] = "done"]
    /\ total' = [total EXCEPT ![j] = 0]
    /\ status' = [status EXCEPT ![j] = IF opt[j].mode = "web" THEN "error" ELSE @]
    /\ error' = [error EXCEPT ![j] =
                    IF opt[j].mode = "web" THEN "No supported images found" ELSE @]
    /\ out' = [out EXCEPT ![j] =
                    IF opt[j].mode = "cli" THEN "No supported images found." ELSE @]
    /\ exit_code' = [exit_code EXCEPT ![j] = IF opt[j].mode = "cli" THEN 1 ELSE @]
    /\ UNCHANGED <<fs, fs0, tree, opt, plan, k, last_second, seq_in_second,
                   written, probe, resolved>>

\* The scan finds files: the plan is built from them in listing order and
\* sorted; the assignment loop starts with its locals initialised.
BuildAndSort(j) ==
    /\ pc[j] = "start"
    /\ \E listing \in Listings(tree[j]) :
          LET input_files == iter_input_files(listing, opt[j].recursive)
          IN  /\ input_files # <<>>
              /\ total' = [total EXCEPT ![j] = Len(input_files)]
              /\ plan' = [plan EXCEPT ![j] = SortPlan(BuildPlan(input_files, opt[j]))]
    /\ pc' = [pc EXCEPT ![j] = "assign"]
    /\ k' = [k EXCEPT ![j] = 1]
    /\ last_second' = [last_second EXCEPT ![j] = None]
    /\ seq_in_second' = [seq_in_second EXCEPT ![j] = 0]
    /\ status' = [status EXCEPT ![j] = IF opt[j].mode = "web" THEN "processing" ELSE @]
    /\ UNCHANGED <<fs, fs0, tree, opt, written, error, out, exit_code, probe, resolved>>

\* Mutant: each item is saved as soon as its target is assigned.
AssignAndSave(j) ==
    /\ pc[j] = "assign"
    /\ k[j] <= Len(plan[j])
    /\ LET item == plan[j][k[j]]
           ns == NextSeq(item, last_second[j], seq_in_second[j])
           target == ensure_unique(TargetPath(item, ns.seq, opt[j]))
           last == (k[j] = Len(plan[j]))
       IN  /\ last_second' = [last_second EXCEPT ![j] = ns.last]
           /\ seq_in_second' = [seq_in_second EXCEPT ![j] = ns.seq]
           /\ plan' = [plan EXCEPT ![j][k[j]].target = target]
           /\ fs' = fs \cup {target}
           /\ written' = [written EXCEPT ![j] = Append(@, target)]
           /\ k' = [k EXCEPT ![j] = IF last THEN 1 ELSE @ + 1]
           /\ pc' = [pc EXCEPT ![j] = IF last THEN "done" ELSE "assign"]
    /\ UNCHANGED <<fs0, tree, opt, total, status, error, out, exit_code,
                   probe, resolved>>

\* One pass of the loop that assigns target paths.  After the last pass a
\* dry run prints the plan and returns; otherwise execution starts.
AssignTarget(j) ==
    /\ pc[j] = "assign"
    /\ k[j] <= Len(plan[j])
    /\ LET item == plan[j][k[j]]
           ns == NextSeq(item, last_second[j], seq_in_second[j])
           target_path == TargetPath(item, ns.seq, opt[j])
           last == (k[j] = Len(plan[j]))
       IN  /\ last_second' = [last_second EXCEPT ![j] = ns.last]
           /\ seq_in_second' = [seq_in_second EXCEPT ![j] = ns.seq]
           /\ plan' = [plan EXCEPT ![j][k[j]].target = ensure_unique(target_path)]
           /\ k' = [k EXCEPT ![j] = IF last THEN 1 ELSE @ + 1]
           /\ pc' = [pc EXCEPT ![j] =
                        IF ~last THEN "assign"
                        ELSE IF opt[j].dry_run THEN "done" ELSE "exec"]
           /\ out' = [out EXCEPT ![j] = IF last /\ opt[j].dry_run THEN "plan" ELSE @]
           /\ exit_code' = [exit_code EXCEPT ![j] =
                        IF last /\ opt[j].dry_run THEN 0 ELSE @]
    /\ UNCHANGED <<fs, fs0, tree, opt, total, written, status, error, probe, resolved>>

\* Whether save_image can succeed for the item: re-encoding opens the source
\* as an image.
CanSave(item) == ~(item.needs_reencode /\ item.source.image = "unreadable")

\* save_image returns for the current item: the destination is written.
\* After the last item the command prints "Done." and exits with status 0;
\* the web worker sets the job to 'completed'.
SaveOk(j) ==
    /\ pc[j] = "exec"
    /\ k[j] <= Len(plan[j])
    /\ CanSave(plan[j][k[j]])
    /\ LET item == plan[j][k[j]]
           last == (k[j] = Len(plan[j]))
       IN  /\ fs' = fs \cup {item.target}
           /\ written' = [written EXCEPT ![j] = Append(@, item.target)]
           /\ k' = [k EXCEPT ![j] = @ + 1]
           /\ pc' = [pc EXCEPT ![j] = IF last THEN "done" ELSE "exec"]
           /\ out' = [out EXCEPT ![j] =
                        IF last /\ opt[j].mode = "cli" THEN "Done." ELSE @]
           /\ exit_code' = [exit_code EXCEPT ![j] =
                        IF last /\ opt[j].mode = "cli" THEN 0 ELSE @]
           /\ status' = [status EXCEPT ![j] =
                        IF last /\ opt[j].mode = "web" THEN "completed" ELSE @]
    /\ UNCHANGED <<fs0, tree, opt, total, plan, last_second, seq_in_second,
                   error, probe, resolved>>

\* save_image raises for the current item (unreadable source, or the
\* destination cannot be created).  Nothing catches it in the loop: the
\* command ends with a traceback and status 1; the web worker's handler sets
\* the job to 'error'.  The loop is left.
SaveFail(j) ==
    /\ pc[j] = "exec"
    /\ k[j] <= Len(plan[j])
    /\ pc' = [pc EXCEPT ![j] = "done"]
    /\ out' = [out EXCEPT ![j] = IF opt[j].mode = "cli" THEN "Traceback" ELSE @]
    /\ exit_code' = [exit_code EXCEPT ![j] = IF opt[j].mode = "cli" THEN 1 ELSE @]
    /\ status' = [status EXCEPT ![j] = IF opt[j].mode = "web" THEN "error" ELSE @]
    /\ error' = [error EXCEPT ![j] = IF opt[j].mode = "web" THEN "save_image" ELSE @]
    /\ UNCHANGED <<fs, fs0, tree, opt, total, plan, k, last_second, seq_in_second,
                   written, probe, resolved>>

Next ==
    \E j \in JobIds :
        \/ ScanEmpty(j)
        \/ BuildAndSort(j)
        \/ AssignTarget(j)
        \/ SaveOk(j)
        \/ SaveFail(j)

Spec == Init /\ [][Next]_vars

\* ------------------------------------------------------------------------
\* The planner as a function of the listing
\* ------------------------------------------------------------------------

\* The assignment loop from item i on, run to its end.
RECURSIVE AssignFrom(_, _, _, _, _)
AssignFrom(items, i, last, seq, o) ==
    IF i > Len(items) THEN items
    ELSE LET ns == NextSeq(items[i], last, seq)
             target == ensure_unique(TargetPath(items[i], ns.seq, o))
         IN  AssignFrom([items EXCEPT ![i].target = target], i + 1, ns.last, ns.seq, o)

\* The plan main computes when the directory listing yields `listing`.
PlanFor(listing, o) ==
    AssignFrom(SortPlan(BuildPlan(iter_input_files(listing, o.recursive), o)),
               1, None, 0, o)

\* ------------------------------------------------------------------------
\* Properties of the plan
\* ------------------------------------------------------------------------

\* The jobs whose planning loop has ended, and the indices of their items.
Planned(j) == pc[j] \in {"exec", "done"}

Items(j) == 1..Len(plan[j])

\* The items whose target path has been assigned.
Assigned(j) ==
    IF pc[j] = "assign" THEN 1..(k[j] - 1)
    ELSE IF Planned(j) THEN Items(j) ELSE {}

\* The sequence number written into a target name: the four digits after
\* "YYYY-MM-DD_HH-MM-SS_".
SeqOf(target) == TwoDigits(target.name, 21) * 100 + TwoDigits(target.name, 23)

\* The items up to i that are of the same whole second as item i.
SameSecondUpTo(j, i) ==
    {a \in 1..i : TruncSecond(plan[j][a].capture_dt) = TruncSecond(plan[j][i].capture_dt)}

\* C1: when planning has ended, no two distinct PlanItems of a plan have the
\* same target path.
C1_TargetsUnique ==
    \A j \in JobIds :
        Planned(j) =>
            \A a, b \in Items(j) : a # b => plan[j][a].target # plan[j][b].target

\* C1 witness: execution is about to begin on a plan of three items, two of
\* the same second, one of whose targets got a `__1` suffix because of a file
\* of an earlier run.
C1_Witness ==
    /\ pc[1] = "exec" /\ k[1] = 1
    /\ Len(plan[1]) = 3
    /\ Cardinality(SameSecondUpTo(1, 3)) >= 2
    /\ \E i \in Items(1) : plan[1][i].target = Candidate(EarlierTarget(opt[1]), 1)

\* C3: a sorted plan has the item with the smaller capture_dt first, and among
\* equal capture_dt the item with the lexically smaller source file name.
C3_PlanSorted ==
    \A j \in JobIds :
        pc[j] \in {"assign", "exec", "done"} =>
            \A a, b \in Items(j) :
                LET A == plan[j][a]
                    B == plan[j][b]
                IN  /\ DtLess(A.capture_dt, B.capture_dt) => a < b
                    /\ (A.capture_dt = B.capture_dt
                        /\ StrLess(A.source.name, B.source.name)) => a < b

\* C3 witness: a sorted plan with two items of equal capture_dt and different
\* names, and a third of a different time.
C3_Witness ==
    /\ pc[1] = "assign"
    /\ \E a, b, c \in Items(1) :
          /\ plan[1][a].capture_dt = plan[1][b].capture_dt
          /\ StrLess(plan[1][a].source.name, plan[1][b].source.name)
          /\ DtLess(plan[1][c].capture_dt, plan[1][a].capture_dt)

\* C4: the items of one whole second are contiguous in the plan and are
\* numbered 1, 2, ..., k in plan order, whatever their sub-second parts.
C4_SecondRuns ==
    \A j \in JobIds :
        Planned(j) =>
            /\ \A a, b, c \in Items(j) :
                  (a < b /\ b < c
                   /\ TruncSecond(plan[j][a].capture_dt) = TruncSecond(plan[j][c].capture_dt))
                  => TruncSecond(plan[j][b].capture_dt) = TruncSecond(plan[j][a].capture_dt)
            /\ \A i \in Items(j) :
                  SeqOf(plan[j][i].target) = Cardinality(SameSecondUpTo(j, i))

\* C4 witness: a plan of three items of one second, the last of them with a
\* sub-second part and numbered 3.
C4_Witness ==
    /\ pc[1] = "exec"
    /\ Len(plan[1]) = 3
    /\ plan[1][3].capture_dt.us # 0
    /\ TruncSecond(plan[1][3].capture_dt) = plan[1][1].capture_dt
    /\ SeqOf(plan[1][3].target) = 3

\* C7: an assigned target is the computed path itself when that path did not
\* exist, otherwise the path with `__n` for the smallest n >= 1 that did not
\* exist; in both cases it is no file that existed before the run.
C7_EnsureUnique ==
    \A j \in JobIds : \A i \in Assigned(j) :
        LET item == plan[j][i]
            path == TargetPath(item, SeqOf(item.target), opt[j])
        IN  /\ item.target \notin fs0
            /\ path \notin fs0 => item.target = path
            /\ path \in fs0 =>
                  \E n \in 1..(Cardinality(fs0) + 1) :
                      /\ item.target = Candidate(path, n)
                      /\ \A m \in 1..(n - 1) : Candidate(path, m) \in fs0

\* C7 witness: the computed path and its `__1` variant both existed, and the
\* item got `__2`; another item of the plan kept its computed path.
C7_Witness ==
    /\ pc[1] = "exec"
    /\ \E i \in Items(1) :
          plan[1][i].target = Candidate(EarlierTarget(opt[1]), 2)
    /\ \E i \in Items(1) :
          plan[1][i].target = TargetPath(plan[1][i], SeqOf(plan[1][i].target), opt[1])

\* The canonical extension of a target format, as the claim lists them.
CanonicalExt(format) ==
    CASE format = "jpeg" -> <<46, 106, 112, 103>>
      [] format = "png"  -> <<46, 112, 110, 103>>
      [] format = "webp" -> <<46, 119, 101, 98, 112>>
      [] format = "tiff" -> <<46, 116, 105, 102, 102>>

NoSupportedFile(j) ==
    \A e \in tree[j] :
        \/ e.kind # "file"
        \/ Lower(Suffix(e.name)) \notin SUPPORTED_INPUT_EXTS
        \/ (~opt[j].recursive /\ e.dir # <<>>)

\* C10: when the scan yields no supported file the run ends in a reported
\* failure (command: message and exit status 1; web job: status 'error' with
\* error 'No supported images found'), no plan item is built or executed and
\* nothing is written under the output directory.
C10_EmptyScanFails ==
    \A j \in JobIds :
        (pc[j] \notin {"idle", "start"} /\ NoSupportedFile(j)) =>
            /\ pc[j] = "done"
            /\ plan[j] = <<>>
            /\ written[j] = <<>>
            /\ fs = fs0
            /\ opt[j].mode = "cli" =>
                  (exit_code[j] = 1 /\ out[j] = "No supported images found.")
            /\ opt[j].mode = "web" =>
                  (status[j] = "error" /\ error[j] = "No supported images found")

\* C10 witness: a web job without `recursive` whose only image is in a
\* subdirectory has ended.
C10_Witness ==
    /\ pc[1] = "done"
    /\ opt[1].mode = "web"
    /\ NoSupportedFile(1)
    /\ \E e \in tree[1] : e.dir # <<>>

\* C2 (as claimed): two planner runs on the same files, options and output
\* directory give the same plan, whatever order the listing yields the files in.
C2_Deterministic ==
    \A j \in JobIds :
        (pc[j] = "exec" /\ written[j] = <<>>) =>
            \A listing \in Listings(tree[j]) : PlanFor(listing, opt[j]) = plan[j]

\* C8 (as claimed): after save_image failed for one item, every other item
\* of the plan has been executed.
C8_OthersExecuted ==
    \A j \in JobIds :
        (pc[j] = "done" /\ (out[j] = "Traceback" \/ error[j] = "save_image")) =>
            \A i \in Items(j) \ {k[j]} :
                \E w \in 1..Len(written[j]) : written[j][w] = plan[j][i].target

\* ------------------------------------------------------------------------
\* determine_capture_datetime on its own
\* ------------------------------------------------------------------------

ExifTags == {"DateTimeOriginal", "DateTime", "DateTimeDigitized"}

\* Values a tag can hold: well-formed with ":", with "/" and a trailing blank,
\* with "-", as bytes; the all-zero value of an unset clock; a number.
ExifValues ==
    { StrValue(ExifStamp(2021, 1, 2, 15, 30, 45, 58)),
      StrValue(ExifStamp(2019, 7, 8, 9, 10, 11, 47) \o <<32>>),
      StrValue(ExifStamp(2018, 2, 28, 23, 59, 59, 45)),
      [kind |-> "bytes", chars |-> ExifStamp(2017, 12, 31, 0, 0, 0, 58)],
      StrValue(ExifStamp(0, 0, 0, 0, 0, 0, 58)),
      [kind |-> "int", chars |-> <<>>] }

ExifMaps == UNION {[S -> ExifValues] : S \in SUBSET ExifTags}

JpgExt == <<46, 106, 112, 103>>

\* File names: a camera name; one without digits; one whose first date is
\* 30 February and whose second is valid; one whose first date has day 32;
\* one with day 00 only; one written with separators.
ProbeNames ==
    { <<73, 77, 71, 95>> \o CompactStamp(2021, 1, 2, 15, 30, 45) \o JpgExt,
      <<99, 46, 112, 110, 103>>,
      CompactStamp(2021, 2, 30, 12, 0, 0) \o <<95>>
          \o CompactStamp(2021, 1, 2, 15, 30, 45) \o JpgExt,
      CompactStamp(2021, 1, 32, 12, 0, 0) \o <<95>>
          \o CompactStamp(2021, 1, 2, 15, 30, 45) \o JpgExt,
      <<73, 77, 71, 95>> \o CompactStamp(2021, 1, 0, 12, 0, 0) \o JpgExt,
      Digits4(2022) \o <<45>> \o Digits2(11) \o <<45>> \o Digits2(30) \o <<32>>
          \o Digits2(23) \o <<46>> \o Digits2(59) \o <<46>> \o Digits2(58) \o JpgExt }

ProbeFiles ==
    { Entry(<<>>, name, "file", image, exif, birth, Epoch(1600000000, 250000)) :
        name \in ProbeNames,
        image \in {"ok", "unreadable", "badexif"},
        exif \in ExifMaps,
        birth \in {NoBirth, Epoch(0, 0), Epoch(1500000000, 0)} }

InitResolve ==
    /\ probe \in ProbeFiles
    /\ resolved = None
    /\ pc = [j \in JobIds |-> IF IdleJob(j) THEN "idle" ELSE "resolve"]
    /\ fs0 = {}
    /\ fs = {}
    /\ tree = [j \in JobIds |-> {}]
    /\ opt = [j \in JobIds |-> NoOptions]
    /\ total = [j \in JobIds |-> 0]
    /\ plan = [j \in JobIds |-> <<>>]
    /\ k = [j \in JobIds |-> 0]
    /\ last_second = [j \in JobIds |-> None]
    /\ seq_in_second = [j \in JobIds |-> 0]
    /\ written = [j \in JobIds |-> <<>>]
    /\ status = [j \in JobIds |-> ""]
    /\ error = [j \in JobIds |-> ""]
    /\ out = [j \in JobIds |-> ""]
    /\ exit_code = [j \in JobIds |-> -1]

\* The call determine_capture_datetime(probe) returns.
Resolve ==
    /\ pc[1] = "resolve"
    /\ resolved' = determine_capture_datetime(probe)
    /\ pc' = [pc EXCEPT ![1] = "resolved"]
    /\ UNCHANGED <<fs, fs0, tree, opt, total, plan, k, last_second, seq_in_second,
                   written, status, error, out, exit_code, probe>>

NextResolve == Resolve

SpecResolve == InitResolve /\ [][NextResolve]_vars

\* Whether the tag of the probed file holds a value that parses.
TagParses(tag) ==
    /\ probe.image = "ok"
    /\ tag \in DOMAIN probe.exif
    /\ ParseExifValue(probe.exif[tag]) # None

\* C5: the call returns a timestamp: that of the first of DateTimeOriginal,
\* DateTime, DateTimeDigitized that parses, whatever the name and file times
\* are; otherwise the one the name yields; otherwise the file time.
C5_FirstSuccess ==
    pc[1] = "resolved" =>
        /\ resolved # None
        /\ IF TagParses("DateTimeOriginal")
           THEN resolved = ParseExifValue(probe.exif["DateTimeOriginal"])
           ELSE IF TagParses("DateTime")
           THEN resolved = ParseExifValue(probe.exif["DateTime"])
           ELSE IF TagParses("DateTimeDigitized")
           THEN resolved = ParseExifValue(probe.exif["DateTimeDigitized"])
           ELSE IF try_parse_from_name(probe.name) # None
           THEN resolved = try_parse_from_name(probe.name)
           ELSE resolved = get_file_times(probe)

\* C5 witness: DateTimeOriginal holds the all-zero value, DateTime a
\* well-formed one, the name a date of its own; the call returned DateTime's.
C5_Witness ==
    /\ pc[1] = "resolved"
    /\ probe.image = "ok"
    /\ DOMAIN probe.exif = ExifTags
    /\ probe.exif["DateTimeOriginal"] = StrValue(ExifStamp(0, 0, 0, 0, 0, 0, 58))
    /\ probe.exif["DateTime"].kind = "bytes"
    /\ try_parse_from_name(probe.name) = DT(2021, 1, 2, 15, 30, 45, 0)
    /\ resolved = DT(2017, 12, 31, 0, 0, 0, 0)

\* Whether EXIF gives the probed file no timestamp.
NoExifTime == \A tag \in ExifTags : ~TagParses(tag)

\* The datetime of the pattern match at position i of the name.
MatchTime(name, i) ==
    LET match == MatchAt(name, i)
    IN  DT(match.y, match.m, match.d, match.h, match.mi, match.s, 0)

\* The positions at which the name matches with valid calendar values.
ValidPositions(name) ==
    {i \in MatchPositions(name) :
        LET match == MatchAt(name, i)
        IN  ValidDateTime(match.y, match.m, match.d, match.h, match.mi, match.s)}

\* C6 (as claimed): a match with invalid calendar values is rejected and the
\* next candidate match in the name is tried; the file time is used only when
\* no candidate is valid.
C6_NextCandidate ==
    (pc[1] = "resolved" /\ NoExifTime) =>
        LET valid == ValidPositions(probe.name)
        IN  IF valid # {}
            THEN resolved = MatchTime(probe.name, CHOOSE i \in valid : \A n \in valid : i <= n)
            ELSE resolved = get_file_times(probe)

\* C6 (amended): only the leftmost match of the name is tried; when its
\* calendar values are invalid it is rejected without raising, no later match
\* of the name is tried, and the file time is used.
C6_FirstMatchOnly ==
    (pc[1] = "resolved" /\ NoExifTime) =>
        LET found == MatchPositions(probe.name)
            first == CHOOSE i \in found : \A n \in found : i <= n
        IN  IF found # {} /\ first \in ValidPositions(probe.name)
            THEN resolved = MatchTime(probe.name, first)
            ELSE resolved = get_file_times(probe)

\* C6 witness: the name's first match is 30 February, a later match is valid,
\* and the call returned the file time.
C6_Witness ==
    /\ pc[1] = "resolved"
    /\ NoExifTime
    /\ MatchPositions(probe.name) # {}
    /\ ValidPositions(probe.name) # {}
    /\ \E i \in MatchPositions(probe.name) : \A n \in ValidPositions(probe.name) : i < n
    /\ resolved = get_file_times(probe)

\* ------------------------------------------------------------------------
\* Planning before execution
\* ------------------------------------------------------------------------

\* Once a job has written a file its planning loop has ended and every item
\* has its target; what it has written are the targets of the first items of
\* the plan, in plan order, and the loop stands at the next item.  Before any
\* write the output directory is as it was.
C12_WritesFollowPlan ==
    /\ (\A j \in JobIds : written[j] = <<>>) => fs = fs0
    /\ \A j \in JobIds :
          /\ Len(written[j]) <= Len(plan[j])
          /\ written[j] # <<>> =>
                /\ Planned(j)
                /\ \A i \in Items(j) : plan[j][i].target # Placeholder
          /\ \A w \in 1..Len(written[j]) : written[j][w] = plan[j][w].target
          /\ pc[j] = "exec" => Len(written[j]) = k[j] - 1

\* A step writes at most one file per job, the target of the item after the
\* ones written, and leaves the plan of a job that has written as it is.
C12_OneWritePerStep ==
    \A j \in JobIds :
        /\ written[j] # <<>> => plan'[j] = plan[j]
        /\ written'[j] # written[j] =>
              /\ plan'[j] = plan[j]
              /\ Len(written[j]) < Len(plan[j])
              /\ written'[j] = Append(written[j], plan[j][Len(written[j]) + 1].target)

\* C12: within a run nothing is written before every PlanItem has its final
\* target path, no target path changes after the first write, and the items
\* are executed one at a time in plan order.
C12_PlanThenExecute == []C12_WritesFollowPlan /\ [][C12_OneWritePerStep]_vars

\* C12 witness: a plan of three items, the first two written, the third next.
C12_Witness ==
    /\ pc[1] = "exec"
    /\ Len(plan[1]) = 3
    /\ k[1] = 3
    /\ written[1] = <<plan[1][1].target, plan[1][2].target>>
    /\ plan[1][3].target \notin fs

\* ------------------------------------------------------------------------
\* Web jobs that run at the same time
\* ------------------------------------------------------------------------

\* The input trees of concurrent jobs: readable images of the root.
WebEntries == {e \in Entries : e.dir = <<>> /\ e.image = "ok"}

WebTrees == {t \in SUBSET WebEntries : Cardinality(t) <= MaxJobFiles}

\* The options of the requests: each job has its own layout.
WebOptions ==
    [ mode : {"web"}, output_format : {"jpeg"}, subfolders : {"none", "day"},
      copy_unchanged : {TRUE}, recursive : {TRUE}, dry_run : {FALSE} ]

\* /api/process has been called once per job: every job has its entry in
\* processing_jobs with status 'starting' and its worker thread, and all
\* write below the same output directory.
InitWeb ==
    \E t \in [JobIds -> WebTrees], o \in [JobIds -> WebOptions] :
        /\ tree = t
        /\ opt = o
        /\ fs0 \in PreExisting(o[1])
        /\ fs = fs0
        /\ pc = [j \in JobIds |-> "start"]
        /\ total = [j \in JobIds |-> 0]
        /\ plan = [j \in JobIds |-> <<>>]
        /\ k = [j \in JobIds |-> 0]
        /\ last_second = [j \in JobIds |-> None]
        /\ seq_in_second = [j \in JobIds |-> 0]
        /\ written = [j \in JobIds |-> <<>>]
        /\ status = [j \in JobIds |-> "starting"]
        /\ error = [j \in JobIds |-> ""]
        /\ out = [j \in JobIds |-> ""]
        /\ exit_code = [j \in JobIds |-> -1]
        /\ probe = Entry(<<>>, <<>>, "file", "ok", NoExif, NoBirth, Epoch(0, 0))
        /\ resolved = None

\* The worker threads take their steps in any order.
SpecWeb == InitWeb /\ [][Next]_vars

\* The paths a job has written.
WrittenBy(j) == {written[j][w] : w \in 1..Len(written[j])}

\* C11 (as claimed): no destination path is written by two workers.
C11_WritesDisjoint ==
    \A a, b \in JobIds : a # b => WrittenBy(a) \cap WrittenBy(b) = {}

\* C11 (amended): the path a planning loop allocates does not exist when it
\* is allocated, so it is none of the paths any worker has written so far.
C11_FreshAtAllocation ==
    [][\A j \in JobIds :
          (pc[j] = "assign" /\ plan'[j] # plan[j]) =>
              /\ plan'[j][k[j]].target \notin fs
              /\ \A b \in JobIds : plan'[j][k[j]].target \notin WrittenBy(b)]_vars

\* C11 witness: while one job was executing, the other allocated a target
\* with `__1` because the first had just written the computed path.
C11_Witness ==
    /\ pc[1] = "exec"
    /\ pc[2] \in {"assign", "exec"}
    /\ \E p \in WrittenBy(1) :
          /\ p \notin fs0
          /\ \E i \in Assigned(2) : plan[2][i].target = Candidate(p, 1)

====
